---- MODULE Spec2Model ----
(***************************************************************************)
(* SDFTree (robot_designer_plugin/export/sdf/generic/sdf_tree.py): the     *)
(* conversion between a flat SDF Document (links, joints that name a       *)
(* parent and a child link) and the tree of SDFTree nodes.                 *)
(*                                                                         *)
(* Objects of the DOM (links, joints) have identity: a link is its index   *)
(* in robot.link, a joint its index in robot.joint.  joint.parent and      *)
(* joint.child are the plural elements of the binding: sequences of names, *)
(* of which parse reads the first ([0]).                                   *)
(*                                                                         *)
(* dae_sdf_converter (robot_designer_plugin/operators/dae_sdf_converter.py) *)
(* turns every .dae file under a folder into an SDF package folder.        *)
(*                                                                         *)
(* parse logs through the module-level name logger, which the module does  *)
(* not bind (it imports export_logger only); the model takes every logging *)
(* call to return, and follows what the call evaluates for its arguments.  *)
(***************************************************************************)
EXTENDS Integers, Sequences, FiniteSets, TLC

\* ------------------------------------------------------------------ bounds
MaxLinks == 3
MaxJoints == 2
MaxAdds == 3
MaxWrites == 2
MaxFiles == 3

\* the interpreter's recursion limit, scaled to the model: deeper than any
\* acyclic chain of MaxLinks links, so that only a cycle exhausts it
RecursionLimit == MaxLinks + 2

\* self.joint = None
None == 0

LinkNames == {"a", "b", "c"}
\* the name of the k-th joint of a Document
JointNames == <<"j1", "j2", "j3", "j4">>
\* the name attribute of a DOM object that was never given one
NoName == ""
\* the names a joint can give for its parent and its child; a name of
\* LinkNames that no link of the Document carries is a dangling reference
ParentRefs == LinkNames \cup {"world"}
ChildRefs == LinkNames

VARIABLES
    decode,     \* import: what reading and decoding the file comes to
    doc,        \* import: the Document decoded from the file (root.model[0])
    pc,         \* import: "file" before parse, "parsed" after it
    result,     \* import: what parse returned or raised
    xpc,        \* export: "none", "open" (tree under assembly), "written", "reparsed"
    sdf,        \* export: the sdf element of create_empty: its version and its
                \*         models (sdf.model holds the one model, robot)
    linkObjs,   \* export: every sdf_model_dom.link() created, by identity
    jointObjs,  \* export: every sdf_model_dom.joint() created, by identity
    robot,      \* export: the Document of the tree (sdf.model[0]): its name and
                \*         its lists of links and joints (identities)
    nodes,      \* export: the SDFTree instances, nodes[1] the one of create_empty
    connectedLinks,   \* export: the shared dict joint -> link, in insertion order
    connectedJoints,  \* export: the shared dict link -> joints
    addedTo,    \* export, history: addedTo[n] is the node whose add() returned n
    file,       \* export: the Document rendered into the file
    xresult,    \* export: parse of the rendered file
    handles,    \* the file handles that are open: "read" (parse), "write" (write)
    dir,        \* export: the directory of the destination of write
    disk,       \* export: the file at the destination: "absent", "old" (it was
                \*         there before), "empty" or "rendered" (it holds file)
    wresult,    \* export: how the last call of write ended
    writes,     \* export: the calls of write so far
    walk,       \* batch: the .dae files in the order os.walk yields them
    output,     \* batch: the output folder: "exists" or "missing"
    temp,       \* batch: the temp folder beside it: "exists" or "missing"
    packages,   \* batch: package name -> what is on disk at output/<name>
    file_cnt,   \* batch: the converter's counter of .dae files
    success_cnt,  \* batch: the converter's counter of successes
    outcome,    \* batch, history: outcome[i] is how the turn of walk[i] ended
    bpc         \* batch: "none", "walking", "finished"

vars == <<decode, doc, pc, result, handles, dir, disk, wresult, writes, xpc, sdf, linkObjs, jointObjs, robot, nodes,
          connectedLinks, connectedJoints, addedTo, file, xresult,
          walk, output, temp, packages, file_cnt, success_cnt, outcome, bpc>>

batchVars == <<walk, output, temp, packages, file_cnt, success_cnt, outcome, bpc>>
importVars == <<decode, doc, pc, result>>
fsVars == <<dir, disk, wresult, writes>>
exportVars == <<fsVars, xpc, sdf, linkObjs, jointObjs, robot, nodes, connectedLinks,
                connectedJoints, addedTo, file, xresult>>

\* ------------------------------------------------------------- sequences
Indices(s) == 1..Len(s)

\* <<1, ..., n>>
RECURSIVE Upto(_)
Upto(n) == IF n = 0 THEN << >> ELSE Append(Upto(n - 1), n)

SeqsUpTo(S, n) == UNION {[1..k -> S] : k \in 0..n}

Max(S) == CHOOSE x \in S : \A y \in S : y <= x

Range(s) == {s[i] : i \in DOMAIN s}

RECURSIVE Concat(_)
Concat(ss) == IF ss = << >> THEN << >> ELSE Head(ss) \o Concat(Tail(ss))

\* ---------------------------------------------------------------- Document
\* link and joint elements; inertial, axis, parent and child are plural
\* elements (sequences), empty in an element that was just constructed
Link(n) == [name |-> n, inertial |-> << >>]
Joint(n, p, c) == [name |-> n, parent |-> p, child |-> c, axis |-> << >>]
Document(ls, js) == [link |-> ls, joint |-> js]

EmptyDocument == Document(<< >>, << >>)

\* a Document as a file holds it: every joint has one parent and one child
\* element; the joints of a file of k joints are named j1 .. jk in the order
\* of the file (up), or in the opposite order
FileJoints(pr, cr, up) ==
    [i \in DOMAIN pr |->
        Joint(JointNames[IF up THEN i ELSE Len(pr) + 1 - i], <<pr[i]>>, <<cr[i]>>)]

FileDocument(ls, pr, cr, up) ==
    Document([i \in DOMAIN ls |-> Link(ls[i])], FileJoints(pr, cr, up))

FileDocuments ==
    {FileDocument(ls, pr, cr, up) :
        ls \in SeqsUpTo(LinkNames, MaxLinks),
        pr \in SeqsUpTo(ParentRefs, MaxJoints),
        cr \in SeqsUpTo(ChildRefs, MaxJoints),
        up \in BOOLEAN}

\* ------------------------------------------------------------------ parse
\* what parse hands back: status "ok" with root_links and kinematic_chains,
\* or the exception that left it, with nothing returned
Returned(roots, chains) ==
    [status |-> "ok", root_links |-> roots, kinematic_chains |-> chains]
Raised(e) == [status |-> e, root_links |-> << >>, kinematic_chains |-> << >>]
NoResult == Raised("none")

\* joint.parent[0] / joint.child[0] of an empty plural element
Unreadable(D) ==
    /\ D.link # << >>
    /\ \E j \in Indices(D.joint) : D.joint[j].parent = << >> \/ D.joint[j].child = << >>

connected_joints_ByName(D) ==
    [l \in Indices(D.link) |->
        Concat([k \in Indices(JointNames) |->
            SelectSeq(Upto(Len(D.joint)),
                      LAMBDA j : /\ D.link[l].name = D.joint[j].parent[1]
                                 /\ D.joint[j].name = JointNames[k])])]

\* {link: [joint for joint in robot.joint if link.name == joint.parent[0]] ...}
connected_joints(D) ==
    [l \in Indices(D.link) |->
        SelectSeq(Upto(Len(D.joint)),
                  LAMBDA j : D.link[l].name = D.joint[j].parent[1])]

\* {joint: link for link in robot.link for joint in robot.joint
\*    if link.name == joint.child[0]}: a later link replaces an earlier one
connected_links(D) ==
    LET Matches(j) == {l \in Indices(D.link) : D.link[l].name = D.joint[j].child[1]}
    IN  [j \in {k \in Indices(D.joint) : Matches(k) # {}} |-> Max(Matches(j))]

child_links_NoWorldTest(D) ==
    {D.link[l].name : l \in {k \in Indices(D.link) :
        \E j \in Indices(D.joint) : D.link[k].name = D.joint[j].child[1]}}

\* [link.name ... if link.name == joint.child[0] and joint.parent[0] != 'world']
child_links(D) ==
    {D.link[l].name : l \in {k \in Indices(D.link) :
        \E j \in Indices(D.joint) :
            /\ D.link[k].name = D.joint[j].child[1]
            /\ D.joint[j].parent[1] # "world"}}

\* [link for link in robot.link if link.name not in child_links]
root_links(D) ==
    SelectSeq(Upto(Len(D.link)), LAMBDA l : D.link[l].name \notin child_links(D))

world_joints_ByParent(D) ==
    LET Matches(l) == {j \in Indices(D.joint) : D.link[l].name = D.joint[j].parent[1]}
    IN  [l \in {k \in Range(root_links(D)) : Matches(k) # {}} |-> Max(Matches(l))]

\* {link: joint for link in root_links for joint in robot.joint
\*    if link.name == joint.child[0]}: a later joint replaces an earlier one
world_joints(D) ==
    LET Matches(l) == {j \in Indices(D.joint) : D.link[l].name = D.joint[j].child[1]}
    IN  [l \in {k \in Range(root_links(D)) : Matches(k) # {}} |-> Max(Matches(l))]

\* an SDFTree instance after build
Node(l, j, cs) == [link |-> l, joint |-> j, children |-> cs]
Built(n) == [err |-> "none", tree |-> n]
Failed(e) == [err |-> e, tree |-> Node(None, None, << >>)]

build_Leaf(D, link, joint, depth) == Built(Node(link, joint, << >>))

RECURSIVE build(_, _, _, _)
RECURSIVE build_children(_, _, _, _)

\* SDFTree.build: the node of link, reached through joint, and below it one
\* child per joint of connectedJoints[link], in that order
build(D, link, joint, depth) ==
    IF depth > RecursionLimit THEN Failed("RecursionError")
    ELSE LET below == build_children(D, connected_joints(D)[link], depth, << >>)
         IN  IF below.err # "none" THEN Failed(below.err)
             ELSE Built(Node(link, joint, below.trees))

\* the loop of build over children; the first exception leaves the loop
build_children(D, joints, depth, done) ==
    IF joints = << >> THEN [err |-> "none", trees |-> done]
    ELSE LET joint == Head(joints)
         IN  IF joint \notin DOMAIN connected_links(D)
             THEN [err |-> "KeyError", trees |-> done]
             ELSE LET sub == build(D, connected_links(D)[joint], joint, depth + 1)
                  IN  IF sub.err # "none" THEN [err |-> sub.err, trees |-> done]
                      ELSE build_children(D, Tail(joints), depth, Append(done, sub.tree))

build_root_NoJoint(D, link) == build(D, link, None, 0)

\* the body of the loop over root_links: build from the world joint of the
\* link (a joint object is truthy); a KeyError (the link has no world joint,
\* or build raised one) is answered by build(link, None)
build_root(D, link) ==
    IF link \in DOMAIN world_joints(D)
    THEN LET first == build(D, link, world_joints(D)[link], 0)
         IN  IF first.err = "KeyError" THEN build(D, link, None, 0) ELSE first
    ELSE build(D, link, None, 0)

RECURSIVE build_roots(_, _, _)
build_roots(D, links, done) ==
    IF links = << >> THEN [err |-> "none", trees |-> done]
    ELSE LET t == build_root(D, Head(links))
         IN  IF t.err # "none" THEN [err |-> t.err, trees |-> done]
             ELSE build_roots(D, Tail(links), Append(done, t.tree))

RECURSIVE build_per_joint(_, _, _)
build_per_joint(D, pairs, done) ==
    IF pairs = << >> THEN [err |-> "none", trees |-> done]
    ELSE LET joint == Head(pairs)
         IN  IF joint \notin DOMAIN connected_links(D)
             THEN [err |-> "KeyError", trees |-> done]
             ELSE LET t == build(D, connected_links(D)[joint], joint, 0)
                  IN  IF t.err # "none" THEN [err |-> t.err, trees |-> done]
                      ELSE build_per_joint(D, Tail(pairs), Append(done, t.tree))

kinematic_chains_PerJoint(D) ==
    build_per_joint(D,
        Concat([i \in Indices(root_links(D)) |-> connected_joints(D)[root_links(D)[i]]]),
        << >>)

\* kinematic_chains: one tree per entry of root_links, in that order
kinematic_chains(D) == build_roots(D, root_links(D), << >>)

\* SDFTree.parse, from the decoded Document on
parse(D) ==
    IF Unreadable(D) THEN Raised("IndexError")
    ELSE LET chains == kinematic_chains(D)
         IN  IF chains.err # "none" THEN Raised(chains.err)
             ELSE Returned(root_links(D), chains.trees)

\* how a call of write ended: the exception and the statement that raised it
Ended(e, at) == [err |-> e, at |-> at]
NotCalled == Ended("none", "none")

\* no sdf element: the import keeps none (self.sdf = None)
NoSdf == [version |-> "", model |-> << >>]

\* ------------------------------------------------------- batch: the disk
\* the names of the packages (the base names of the .dae files)
PackageNames == {"x", "y"}

\* what check_output_exist asks of a package folder: the folder, model.sdf,
\* model.config, mesh and mesh/<name>.dae
Required == {"dir", "model.sdf", "model.config", "mesh", "dae"}

\* before any conversion: no walk, no output folder
NoBatch ==
    /\ walk = << >>
    /\ output = "missing"
    /\ temp = "missing"
    /\ packages = [n \in PackageNames |-> {}]
    /\ file_cnt = 0
    /\ success_cnt = 0
    /\ outcome = << >>
    /\ bpc = "none"

\* ------------------------------------------------------- import: the steps
\* open(file_name).read() and CreateFromDocument: the text decodes, or open
\* raises (FileNotFoundError), or read raises (UnicodeDecodeError), or the
\* binding raises: ContentNondeterminismExceededError, whose instance is an
\* element with a name attribute or one without, or another of its errors
Decoded == [err |-> "none", named |-> TRUE]
DecodeFailures ==
    {[err |-> "ContentNondeterminismExceededError", named |-> TRUE],
     [err |-> "ContentNondeterminismExceededError", named |-> FALSE],
     [err |-> "UnrecognizedContentError", named |-> TRUE],
     [err |-> "UnicodeDecodeError", named |-> TRUE],
     [err |-> "FileNotFoundError", named |-> TRUE]}

Init ==
    /\ \/ /\ decode = Decoded
          /\ \E ls \in SeqsUpTo(LinkNames, MaxLinks), k \in 0..MaxJoints :
                \E pr \in [1..k -> ParentRefs], cr \in [1..k -> ChildRefs], up \in BOOLEAN :
                    doc = FileDocument(ls, pr, cr, up)
       \/ /\ decode \in DecodeFailures
          /\ doc = EmptyDocument
    /\ pc = "file"
    /\ result = NoResult
    /\ handles = {}
    /\ dir = "exists"
    /\ disk = "absent"
    /\ wresult = NotCalled
    /\ writes = 0
    /\ xpc = "idle"
    /\ sdf = NoSdf
    /\ linkObjs = << >>
    /\ jointObjs = << >>
    /\ robot = [name |-> NoName, link |-> << >>, joint |-> << >>]
    /\ nodes = << >>
    /\ connectedLinks = << >>
    /\ connectedJoints = << >>
    /\ addedTo = << >>
    /\ file = EmptyDocument
    /\ xresult = NoResult
    /\ NoBatch

\* the try around CreateFromDocument: the handler of
\* ContentNondeterminismExceededError logs e.instance.name, an AttributeError
\* when the instance has no such attribute, and re-raises e; every other
\* exception passes it by
CreateFromDocument(d) ==
    IF d.err = "ContentNondeterminismExceededError" /\ ~d.named
    THEN Raised("AttributeError")
    ELSE Raised(d.err)

\* build with the set_defaults call that is commented out in it
Parse_SetDefaults ==
    /\ pc = "file"
    /\ result' = IF decode = Decoded THEN parse(doc) ELSE CreateFromDocument(decode)
    /\ doc' = [doc EXCEPT !.joint =
                  [j \in Indices(doc.joint) |->
                      [doc.joint[j] EXCEPT !.child = << >>, !.parent = << >>]]]
    /\ \/ handles' = {}
       \/ decode.err # "FileNotFoundError" /\ handles' = {"read"}
    /\ pc' = "parsed"
    /\ UNCHANGED <<decode, exportVars, batchVars>>

\* SDFTree.parse(file_name).  The handle of open(file_name) is bound to no
\* name and closed by no statement: when parse is left it is closed or not,
\* as the interpreter's collector has it
Parse ==
    /\ pc = "file"
    /\ result' = IF decode = Decoded THEN parse(doc) ELSE CreateFromDocument(decode)
    /\ \/ handles' = {}
       \/ decode.err # "FileNotFoundError" /\ handles' = {"read"}
    /\ pc' = "parsed"
    /\ UNCHANGED <<decode, doc, exportVars, batchVars>>

Next == Parse

Spec == Init /\ [][Next]_vars

\* ------------------------------------------------------- export: the steps
ModelNames == {"robot", "arm"}

\* the destination before the export: its directory is there, with or without
\* a file of that name; or it is missing and can be made, or cannot; or the
\* file name has no directory part (os.path.dirname gives '')
Destinations ==
    {<<"exists", "absent">>, <<"exists", "old">>, <<"missing", "absent">>,
     <<"blocked", "absent">>, <<"", "absent">>, <<"", "old">>}

InitExport ==
    /\ decode = Decoded
    /\ handles = {}
    /\ \E d \in Destinations : dir = d[1] /\ disk = d[2]
    /\ wresult = NotCalled
    /\ writes = 0
    /\ doc = EmptyDocument
    /\ pc = "idle"
    /\ result = NoResult
    /\ xpc = "none"
    /\ sdf = NoSdf
    /\ linkObjs = << >>
    /\ jointObjs = << >>
    /\ robot = [name |-> NoName, link |-> << >>, joint |-> << >>]
    /\ nodes = << >>
    /\ connectedLinks = << >>
    /\ connectedJoints = << >>
    /\ addedTo = << >>
    /\ file = EmptyDocument
    /\ xresult = NoResult
    /\ NoBatch

create_empty_Listed(name) ==
    /\ xpc = "none"
    /\ sdf' = [version |-> "1.6", model |-> <<1>>]
    /\ robot' = [name |-> name, link |-> <<1>>, joint |-> << >>]
    /\ linkObjs' = <<Link(NoName)>>
    /\ jointObjs' = << >>
    /\ nodes' = <<Node(1, None, << >>)>>
    /\ connectedLinks' = << >>
    /\ connectedJoints' = << >>
    /\ addedTo' = <<0>>
    /\ xpc' = "open"
    /\ UNCHANGED <<batchVars, importVars, handles, fsVars, file, xresult>>

\* SDFTree.create_empty: a Document with one model of that name, and a node
\* with a fresh link that is in no list of the Document
create_empty(name) ==
    /\ xpc = "none"
    /\ sdf' = [version |-> "1.6", model |-> <<1>>]
    /\ robot' = [name |-> name, link |-> << >>, joint |-> << >>]
    /\ linkObjs' = <<Link(NoName)>>
    /\ jointObjs' = << >>
    /\ nodes' = <<Node(1, None, << >>)>>
    /\ connectedLinks' = << >>
    /\ connectedJoints' = << >>
    /\ addedTo' = <<0>>
    /\ xpc' = "open"
    /\ UNCHANGED <<batchVars, importVars, handles, fsVars, file, xresult>>

\* sdf_model_dom.inertial() and the inertia that pyxb.BIND() stands for
Inertial == [mass |-> << >>, pose |-> << >>, inertia |-> << >>]
Inertia == [ixx |-> << >>, iyy |-> << >>, izz |-> << >>,
            ixy |-> << >>, ixz |-> << >>, iyz |-> << >>]

set_defaults_NoAxis(joint, link) ==
    [joint |-> [joint EXCEPT !.child = << >>, !.parent = << >>],
     link |-> [link EXCEPT !.inertial =
                  <<[mass |-> <<"1.0">>, pose |-> <<"0 0 0 0 0 0">>,
                     inertia |-> <<[ixx |-> <<"1.0">>, iyy |-> <<"1.0">>, izz |-> <<"1.0">>,
                                    ixy |-> <<"0.0">>, ixz |-> <<"0.0">>, iyz |-> <<"0.0">>]>>]>>]]

\* SDFTree.set_defaults on the node of joint and link: joint.child = '' and
\* joint.parent = '' leave both plural elements empty; an axis, an inertial
\* and an inertia are supplied where there is none; then mass, pose and the
\* six entries of the inertia each get one more value, whatever they hold
set_defaults(joint, link) ==
    LET inertial == IF link.inertial = << >> THEN <<Inertial>> ELSE link.inertial
        inertia == IF inertial[1].inertia = << >> THEN <<Inertia>> ELSE inertial[1].inertia
        inertia0 == [ixx |-> Append(inertia[1].ixx, "1.0"),
                     iyy |-> Append(inertia[1].iyy, "1.0"),
                     izz |-> Append(inertia[1].izz, "1.0"),
                     ixy |-> Append(inertia[1].ixy, "0.0"),
                     ixz |-> Append(inertia[1].ixz, "0.0"),
                     iyz |-> Append(inertia[1].iyz, "0.0")]
        inertial0 == [mass |-> Append(inertial[1].mass, "1.0"),
                      pose |-> Append(inertial[1].pose, "0 0 0 0 0 0"),
                      inertia |-> [inertia EXCEPT ![1] = inertia0]]
    IN  [joint |-> [joint EXCEPT !.child = << >>, !.parent = << >>,
                                 !.axis = IF @ = << >> THEN <<"axis">> ELSE @],
         link |-> [link EXCEPT !.inertial = [inertial EXCEPT ![1] = inertial0]]]

\* SDFTree.add on node n: a new node with a new joint and a new link, both
\* appended to the Document, and connectedLinks[joint] = link; neither
\* n.children nor connectedJoints is touched
add(n) ==
    /\ xpc = "open"
    /\ n \in Indices(nodes)
    /\ Len(nodes) <= MaxAdds
    /\ LET lid == Len(linkObjs) + 1
           jid == Len(jointObjs) + 1
           tree == set_defaults(Joint(NoName, << >>, << >>), Link(NoName))
       IN  /\ linkObjs' = Append(linkObjs, tree.link)
           /\ jointObjs' = Append(jointObjs, tree.joint)
           /\ robot' = [robot EXCEPT !.link = Append(@, lid), !.joint = Append(@, jid)]
           /\ nodes' = Append(nodes, Node(lid, jid, << >>))
           /\ connectedLinks' = Append(connectedLinks, <<jid, lid>>)
           /\ addedTo' = Append(addedTo, n)
    /\ UNCHANGED <<batchVars, importVars, handles, fsVars, xpc, sdf, connectedJoints, file, xresult>>

\* the exporter names the joint and the link of the node that add returned
\* (child.joint.name = ..., child.link.name = ...)
SetNames(n, name) ==
    /\ xpc = "open"
    /\ n \in Indices(nodes) \ {1}
    /\ linkObjs[nodes[n].link].name = NoName
    /\ linkObjs' = [linkObjs EXCEPT ![nodes[n].link].name = name]
    /\ jointObjs' = [jointObjs EXCEPT ![nodes[n].joint].name = JointNames[nodes[n].joint]]
    /\ UNCHANGED <<batchVars, importVars, handles, fsVars, xpc, sdf, robot, nodes, connectedLinks,
                   connectedJoints, addedTo, file, xresult>>

\* for joint, link in self.connectedLinks.items(): joint.child.append(link.name)
RECURSIVE append_children(_, _, _)
append_children(js, ls, pairs) ==
    IF pairs = << >> THEN js
    ELSE LET joint == Head(pairs)[1]
             link == Head(pairs)[2]
         IN  append_children(
                 [js EXCEPT ![joint].child = Append(@, ls[link].name)], ls, Tail(pairs))

\* for link, joints in self.connectedJoints.items():
\*     for joint in joints: joint.parent.append(link.name)
RECURSIVE append_parents(_, _, _)
append_parents(js, ls, pairs) ==
    IF pairs = << >> THEN js
    ELSE LET link == Head(pairs)[1]
             joints == Head(pairs)[2]
         IN  IF joints = << >> THEN append_parents(js, ls, Tail(pairs))
             ELSE append_parents(
                     [js EXCEPT ![Head(joints)].parent = Append(@, ls[link].name)],
                     ls, <<<<link, Tail(joints)>>>> \o Tail(pairs))

attached_joints_KeepAll(js, list) == list

\* [j for j in self.sdf.model[0].joint if j.parent]
attached_joints(js, list) == SelectSeq(list, LAMBDA j : js[j].parent # << >>)

\* self.sdf.toDOM().toprettyxml(): the links and the joints of the model, in
\* the order of its lists, every element of a plural element written out
toDOM(r, ls, js) ==
    Document([i \in Indices(r.link) |-> ls[r.link[i]]],
             [i \in Indices(r.joint) |-> js[r.joint[i]]])

AllNamed == \A n \in Indices(nodes) \ {1} : linkObjs[nodes[n].link].name # NoName

makedirs_Quiet(d) == [err |-> "none", dir |-> d]

\* if not os.path.exists(dirname): os.makedirs(dirname).  A directory that
\* cannot be made raises PermissionError; the empty dirname does not exist
\* and os.makedirs('') raises FileNotFoundError
makedirs(d) ==
    CASE d = "exists" -> [err |-> "none", dir |-> d]
      [] d = "missing" -> [err |-> "none", dir |-> "exists"]
      [] d = "blocked" -> [err |-> "PermissionError", dir |-> d]
      [] OTHER -> [err |-> "FileNotFoundError", dir |-> d]

\* the statements of write that can raise once the directory is there:
\* open(file_name, "w"), toDOM().toprettyxml(), f.write(output); "done" when
\* none does
WriteSteps == {"open", "render", "write", "done"}

\* with open(file_name, "w") as f: output = self.sdf.toDOM().toprettyxml();
\* f.write(output).  open creates the file or truncates it before the
\* Document is rendered; the with statement closes f however it is left
with_open(old, document, raises) ==
    CASE raises = "open" ->
            [result |-> Ended("PermissionError", "open"),
             disk |-> old.disk, file |-> old.file]
      [] raises = "render" ->
            [result |-> Ended("ValidationError", "render"),
             disk |-> "empty", file |-> EmptyDocument]
      [] raises = "write" ->
            [result |-> Ended("OSError", "write"),
             disk |-> "empty", file |-> EmptyDocument]
      [] OTHER ->
            [result |-> Ended("none", "done"),
             disk |-> "rendered", file |-> document]

\* SDFTree.write on the node of create_empty, every node named by then: the
\* two loops over the dicts, the filter of the joint list, the directory,
\* the file
write ==
    /\ xpc \in {"open", "written"}
    /\ AllNamed
    /\ writes < MaxWrites
    /\ LET js == append_parents(append_children(jointObjs, linkObjs, connectedLinks),
                                linkObjs, connectedJoints)
           r == [robot EXCEPT !.joint = attached_joints(js, robot.joint)]
           made == makedirs(dir)
       IN  /\ jointObjs' = js
           /\ robot' = r
           /\ dir' = made.dir
           /\ IF made.err # "none"
              THEN /\ wresult' = Ended(made.err, "makedirs")
                   /\ UNCHANGED <<disk, file>>
              ELSE \E raises \in WriteSteps :
                      LET out == with_open([disk |-> disk, file |-> file],
                                           toDOM(r, linkObjs, js), raises)
                      IN  /\ wresult' = out.result
                          /\ disk' = out.disk
                          /\ file' = out.file
    /\ writes' = writes + 1
    /\ xpc' = "written"
    /\ UNCHANGED <<batchVars, importVars, handles, sdf, linkObjs, nodes, connectedLinks,
                   connectedJoints, addedTo, xresult>>

\* SDFTree.parse of the file that write produced
ParseFile ==
    /\ xpc = "written"
    /\ disk = "rendered"
    /\ xresult' = parse(file)
    /\ handles' \in {{}, {"read"}}
    /\ xpc' = "reparsed"
    /\ UNCHANGED <<batchVars, importVars, fsVars, sdf, linkObjs, jointObjs, robot, nodes,
                   connectedLinks, connectedJoints, addedTo, file>>

NextExport ==
    \/ \E name \in ModelNames : create_empty(name)
    \/ \E n \in 1..(MaxAdds + 1) : add(n)
    \/ \E n \in 1..(MaxAdds + 1), name \in LinkNames : SetNames(n, name)
    \/ write
    \/ ParseFile

SpecExport == InitExport /\ [][NextExport]_vars

\* ----------------------------------------------- set_defaults: the steps
\* the links a node can carry when set_defaults is called on it: without an
\* inertial, or with one whose mass, pose and inertia are there or not
DefaultsLinks ==
    {[Link("a") EXCEPT !.inertial = i] :
        i \in {<< >>} \cup
              {<<[mass |-> m, pose |-> p, inertia |-> t]>> :
                  m \in {<< >>, <<"2.5">>},
                  p \in {<< >>, <<"0 0 1 0 0 0">>},
                  t \in {<< >>, <<Inertia>>, <<[Inertia EXCEPT !.ixx = <<"3.0">>]>>}}}

\* the joints it can carry: with or without parent, child and axis
DefaultsJoints ==
    {[Joint("j1", p, c) EXCEPT !.axis = x] :
        p \in {<< >>, <<"world">>, <<"b">>},
        c \in {<< >>, <<"a">>},
        x \in {<< >>, <<"axis 0 0 1">>}}

\* a node with a joint and a link, both in the lists of its Document
InitDefaults ==
    /\ decode = Decoded
    /\ handles = {}
    /\ dir = "exists"
    /\ disk = "absent"
    /\ wresult = NotCalled
    /\ writes = 0
    /\ doc = EmptyDocument
    /\ pc = "idle"
    /\ result = NoResult
    /\ xpc = "node"
    /\ sdf = NoSdf
    /\ linkObjs \in {<<l>> : l \in DefaultsLinks}
    /\ jointObjs \in {<<j>> : j \in DefaultsJoints}
    /\ robot = [name |-> NoName, link |-> <<1>>, joint |-> <<1>>]
    /\ nodes = <<Node(1, 1, << >>)>>
    /\ connectedLinks = << >>
    /\ connectedJoints = << >>
    /\ addedTo = <<0>>
    /\ file = EmptyDocument
    /\ xresult = NoResult
    /\ NoBatch

\* node.set_defaults()
node_set_defaults ==
    /\ xpc = "node"
    /\ LET tree == set_defaults(jointObjs[nodes[1].joint], linkObjs[nodes[1].link])
       IN  /\ jointObjs' = [jointObjs EXCEPT ![nodes[1].joint] = tree.joint]
           /\ linkObjs' = [linkObjs EXCEPT ![nodes[1].link] = tree.link]
    /\ xpc' = "defaulted"
    /\ UNCHANGED <<batchVars, importVars, handles, fsVars, sdf, robot, nodes, connectedLinks,
                   connectedJoints, addedTo, file, xresult>>

NextDefaults == node_set_defaults

SpecDefaults == InitDefaults /\ [][NextDefaults]_vars

\* -------------------------------------------------------- batch: the steps
\* the files of one folder, in the order os.walk lists them: no file name
\* twice in a folder
FileNames == {[name |-> "x", ext |-> ".dae"], [name |-> "y", ext |-> ".dae"],
              [name |-> "x", ext |-> ".txt"]}
Listings == {s \in SeqsUpTo(FileNames, MaxFiles) :
                \A i, j \in Indices(s) : i # j => s[i] # s[j]}

\* os.walk(mesh_folder): the files of the folder, then those of its
\* subfolder; files of different folders can have the same name
Walks == {w \in {top \o sub : top \in Listings, sub \in Listings} :
             Len(w) <= MaxFiles}

\* a package folder found under the output folder before the run: none, an
\* empty one, one without model.sdf and model.config, a complete one
Found == {{}, {"dir"}, {"dir", "mesh", "dae"}, Required \cup {"coll"}}

InitBatch ==
    /\ decode = Decoded
    /\ handles = {}
    /\ dir = "exists"
    /\ disk = "absent"
    /\ wresult = NotCalled
    /\ writes = 0
    /\ doc = EmptyDocument
    /\ pc = "idle"
    /\ result = NoResult
    /\ xpc = "none"
    /\ sdf = NoSdf
    /\ linkObjs = << >>
    /\ jointObjs = << >>
    /\ robot = [name |-> NoName, link |-> << >>, joint |-> << >>]
    /\ nodes = << >>
    /\ connectedLinks = << >>
    /\ connectedJoints = << >>
    /\ addedTo = << >>
    /\ file = EmptyDocument
    /\ xresult = NoResult
    /\ walk \in Walks
    /\ output \in {"exists", "missing"}
    /\ temp \in {"exists", "missing"}
    /\ packages \in [PackageNames -> Found]
    /\ output = "missing" => \A n \in PackageNames : packages[n] = {}
    /\ file_cnt = 0
    /\ success_cnt = 0
    /\ outcome = << >>
    /\ bpc = "walking"

\* check_output_exist(sdf_name)
check_output_exist(pkgs, sdf_name) == Required \subseteq pkgs[sdf_name]

\* the disk as the converter sees it
Disk(o, t, pkgs) == [output |-> o, temp |-> t, packages |-> pkgs]

\* create_sdf_folder(sdf_name): os.mkdir(output_temp_folder) raises when the
\* output folder is missing and the temp folder is there
create_sdf_folder(d, sdf_name) ==
    IF d.output = "missing" /\ d.temp = "exists"
    THEN [err |-> "FileExistsError", disk |-> [d EXCEPT !.output = "exists"]]
    ELSE [err |-> "none",
          disk |-> [d EXCEPT !.output = "exists", !.temp = "exists",
                             !.packages[sdf_name] = @ \cup {"dir", "mesh"}]]

\* delete_sdf_folder(sdf_name)
delete_sdf_folder(d, sdf_name) ==
    IF "dir" \in d.packages[sdf_name]
    THEN [d EXCEPT !.packages[sdf_name] = {}]
    ELSE d

\* the statements of the try block after create_sdf_folder, and what each
\* puts into the package folder when it returns
Steps == <<"calc_inertial", "gen_visual_mesh", "gen_collision_mesh",
           "model.config", "model.sdf">>
Puts == <<{}, {"dae"}, {"coll"}, {"model.config"}, {"model.sdf"}>>

\* the package folder after the steps before the one that raises
RECURSIVE run(_, _, _)
run(pkg, k, raises) ==
    IF k > Len(Steps) THEN [err |-> "none", pkg |-> pkg]
    ELSE IF Steps[k] = raises THEN [err |-> "Exception", pkg |-> pkg]
    ELSE run(pkg \cup Puts[k], k + 1, raises)

\* the body of the loop for one .dae file: the try block and its handler.
\* counted: success_cnt was incremented
convert(d, sdf_name, raises) ==
    IF check_output_exist(d.packages, sdf_name)
    THEN [counted |-> TRUE, disk |-> d]
    ELSE IF raises = "create_sdf_folder"
    THEN [counted |-> FALSE, disk |-> delete_sdf_folder(d, sdf_name)]
    ELSE LET made == create_sdf_folder(d, sdf_name)
         IN  IF made.err # "none"
             THEN [counted |-> FALSE, disk |-> delete_sdf_folder(made.disk, sdf_name)]
             ELSE LET ran == run(made.disk.packages[sdf_name], 1, raises)
                      after == [made.disk EXCEPT !.packages[sdf_name] = ran.pkg]
                  IN  IF ran.err # "none"
                      THEN [counted |-> FALSE, disk |-> delete_sdf_folder(after, sdf_name)]
                      ELSE [counted |-> TRUE, disk |-> after]

\* one turn of the loop over os.walk: the next file
next_file ==
    /\ bpc = "walking"
    /\ Len(outcome) < Len(walk)
    /\ LET f == walk[Len(outcome) + 1]
       IN  IF f.ext # ".dae"
           THEN /\ outcome' = Append(outcome, "other")
                /\ UNCHANGED <<output, temp, packages, file_cnt, success_cnt>>
           ELSE \E raises \in {"none", "create_sdf_folder"} \cup {Steps[k] : k \in Indices(Steps)} :
                   LET turn == convert(Disk(output, temp, packages), f.name, raises)
                   IN  /\ file_cnt' = file_cnt + 1
                       /\ success_cnt' = IF turn.counted THEN success_cnt + 1 ELSE success_cnt
                       /\ output' = turn.disk.output
                       /\ temp' = turn.disk.temp
                       /\ packages' = turn.disk.packages
                       /\ outcome' = Append(outcome,
                                        IF check_output_exist(turn.disk.packages, f.name)
                                        THEN "complete" ELSE "failed")
    /\ UNCHANGED <<walk, bpc, importVars, handles, exportVars>>

\* the loop is over: "Conversion finished. Total: %d. Succeeded: %d."
dae_sdf_converter ==
    /\ bpc = "walking"
    /\ Len(outcome) = Len(walk)
    /\ bpc' = "finished"
    /\ UNCHANGED <<walk, output, temp, packages, file_cnt, success_cnt, outcome,
                   importVars, handles, exportVars>>

NextBatch ==
    \/ next_file
    \/ dae_sdf_converter

SpecBatch == InitBatch /\ [][NextBatch]_vars

\* ------------------------------------------------- properties of the import
Name(D, l) == D.link[l].name
ParentOf(D, j) == D.joint[j].parent[1]
ChildOf(D, j) == D.joint[j].child[1]

ParsedOk == pc = "parsed" /\ result.status = "ok"

\* how many nodes of the tree carry the link
RECURSIVE LinkCount(_, _)
RECURSIVE LinkCountAll(_, _)
LinkCount(tree, l) ==
    (IF tree.link = l THEN 1 ELSE 0) + LinkCountAll(tree.children, l)
LinkCountAll(trees, l) ==
    IF trees = << >> THEN 0 ELSE LinkCount(Head(trees), l) + LinkCountAll(Tail(trees), l)

UniqueLinkNames(D) ==
    \A l1, l2 \in Indices(D.link) : Name(D, l1) = Name(D, l2) => l1 = l2
LinkNamed(D, n) == \E l \in Indices(D.link) : Name(D, l) = n
ChildrenResolve(D) == \A j \in Indices(D.joint) : LinkNamed(D, ChildOf(D, j))
ParentsResolve(D) ==
    \A j \in Indices(D.joint) : ParentOf(D, j) = "world" \/ LinkNamed(D, ParentOf(D, j))

\* a tree of parse with names in the place of identities
RECURSIVE NamedTree(_, _)
NamedTree(D, tree) ==
    [link |-> D.link[tree.link].name,
     joint |-> IF tree.joint = None THEN "None" ELSE D.joint[tree.joint].name,
     children |-> [i \in Indices(tree.children) |-> NamedTree(D, tree.children[i])]]

NamedForest(D, r) ==
    [i \in Indices(r.kinematic_chains) |-> NamedTree(D, r.kinematic_chains[i])]

\* link A has a child joint whose child is B, and B one whose child is A
TwoCycle(D) ==
    \E A, B \in Indices(D.link) : \E jab, jba \in Indices(D.joint) :
        /\ A # B
        /\ ParentOf(D, jab) = Name(D, A) /\ ChildOf(D, jab) = Name(D, B)
        /\ ParentOf(D, jba) = Name(D, B) /\ ChildOf(D, jba) = Name(D, A)

C3_CycleDetected ==
    (pc = "parsed" /\ UniqueLinkNames(doc) /\ ChildrenResolve(doc)
        /\ ParentsResolve(doc) /\ TwoCycle(doc))
    => result.status \notin {"ok", "RecursionError"}

\* C4 (dangling child): if a joint's child name is the name of no link, parse
\* fails, whether or not build reaches the joint; it never returns a forest.
C4_DanglingChildFails ==
    (pc = "parsed" /\ doc.link # << >> /\ UniqueLinkNames(doc)
        /\ ParentsResolve(doc) /\ ~ChildrenResolve(doc))
    => result.status # "ok"

\* C5 (ambiguous reference): if two links share a name, parse fails; it never
\* returns a forest.
C5_DuplicateNameFails ==
    (pc = "parsed" /\ ~UniqueLinkNames(doc)) => result.status # "ok"

\* C6 (dangling parent): if a joint's parent name is neither "world" nor the
\* name of a link, parse fails; it never returns a forest without the joint
\* and its child link.
C6_DanglingParentFails ==
    (pc = "parsed" /\ UniqueLinkNames(doc) /\ ChildrenResolve(doc)
        /\ ~ParentsResolve(doc))
    => result.status # "ok"

IsChildOfNonWorld(D, l) ==
    \E j \in Indices(D.joint) : ChildOf(D, j) = Name(D, l) /\ ParentOf(D, j) # "world"
IsChildOfAny(D, l) == \E j \in Indices(D.joint) : ChildOf(D, j) = Name(D, l)

TwoChains ==
    Document(<<Link("a"), Link("b"), Link("c")>>, <<Joint("j1", <<"a">>, <<"b">>)>>)

ExampleChain(D) ==
    /\ Len(D.link) = 3
    /\ Range(D.link) = {Link("a"), Link("b"), Link("c")}
    /\ Len(D.joint) = 2
    /\ Range(D.joint) = {Joint("j1", <<"a">>, <<"b">>), Joint("j2", <<"b">>, <<"c">>)}

NamedLeaf(l, j) == [link |-> l, joint |-> j, children |-> << >>]

ChildJoints(tree) == [i \in Indices(tree.children) |-> tree.children[i].joint]

\* the joints of the children of the node are the joints of D whose parent is
\* the name of the node's link, each once, in the order of D.joint; and so
\* for every node below it
RECURSIVE ChildOrder(_, _)
ChildOrder(D, tree) ==
    LET js == ChildJoints(tree)
    IN  /\ Range(js) = {j \in Indices(D.joint) : ParentOf(D, j) = Name(D, tree.link)}
        /\ \A i, k \in Indices(js) : i < k => js[i] < js[k]
        /\ \A i \in Indices(tree.children) : ChildOrder(D, tree.children[i])

AssembledDocument ==
    LET added == SelectSeq(Upto(Len(nodes)), LAMBDA n : n # 1)
        inner == SelectSeq(added, LAMBDA n : addedTo[n] # 1)
    IN  Document(
            [i \in Indices(added) |-> linkObjs[nodes[added[i]].link]],
            [i \in Indices(inner) |->
                Joint(jointObjs[nodes[inner[i]].joint].name,
                      <<linkObjs[nodes[addedTo[inner[i]]].link].name>>,
                      <<linkObjs[nodes[inner[i]].link].name>>)])

\* C1 (round trip): for the Document D an export assembled (unique link
\* names; a tree, so without cycles), parsing the file that write rendered
\* yields the forest of parsing D: the same link and joint names, the same
\* parent/child relationships, the same order of child joints.
C1_RoundTrip ==
    (xpc = "reparsed" /\ UniqueLinkNames(AssembledDocument)) =>
        /\ xresult.status = "ok"
        /\ NamedForest(file, xresult) =
              NamedForest(AssembledDocument, parse(AssembledDocument))

\* the nodes that add returned, and of those the ones that were added to a
\* node that add returned (the node of create_empty is nodes[1])
Added == SelectSeq(Upto(Len(nodes)), LAMBDA n : n # 1)
Inner == SelectSeq(Added, LAMBDA n : addedTo[n] # 1)

Written == xpc \in {"written", "reparsed"}

\* C13 (serializer writes parent names): after write, the joint of every node
\* that add returned for a node N (N itself returned by add) has the name of
\* N's link as its one parent name.
C13_ParentNames ==
    Written =>
        \A n \in Range(Inner) :
            jointObjs[nodes[n].joint].parent = <<linkObjs[nodes[addedTo[n]].link].name>>

\* the names of the joints of the rendered Document, in its order
FileJointNames == [i \in Indices(file.joint) |-> file.joint[i].name]

\* C14 (exported joints in append order): after write, the joints of the
\* nodes that add returned (for a node that add returned) are in the rendered
\* Document's joint list, every one of them, in the order of their add calls.
C14_AppendOrder ==
    Written =>
        LET names == [i \in Indices(Inner) |-> jointObjs[nodes[Inner[i]].joint].name]
        IN  SelectSeq(FileJointNames, LAMBDA x : x \in Range(names)) = names

C16_ChildLinked ==
    /\ \A n \in Range(Added) : n \in Range(nodes[addedTo[n]].children)
    /\ Len(nodes) > 1 =>
          LET N == nodes[addedTo[Len(nodes)]]
          IN  N.children # << >> /\ N.children[Len(N.children)] = Len(nodes)

\* C17 (shared Document): while the tree is assembled, the Document's link
\* list and joint list hold the link and the joint of every node that add
\* returned, each once, in the order of creation; and the Document that write
\* renders shows, for each of these links and for the joint of every node
\* added below such a node, the name the node's object has.
C17_SharedDocument ==
    /\ xpc = "open" =>
          /\ robot.link = [i \in Indices(Added) |-> nodes[Added[i]].link]
          /\ robot.joint = [i \in Indices(Added) |-> nodes[Added[i]].joint]
    /\ Written =>
          /\ [i \in Indices(file.link) |-> file.link[i].name] =
                [i \in Indices(Added) |-> linkObjs[nodes[Added[i]].link].name]
          /\ \A n \in Range(Inner) :
                jointObjs[nodes[n].joint].name \in Range(FileJointNames)

\* the first inertial of the node's link has the mass 2.5 and nothing else
\* for a mass
MassIs25(ls) ==
    /\ ls[nodes[1].link].inertial # << >>
    /\ ls[nodes[1].link].inertial[1].mass = <<"2.5">>

\* pose and the six entries of the inertia of the first inertial are there
InertialFilled(ls) ==
    LET inertial == ls[nodes[1].link].inertial[1]
    IN  /\ inertial.pose # << >>
        /\ inertial.inertia # << >>
        /\ \A f \in DOMAIN inertial.inertia[1] : inertial.inertia[1][f] # << >>

\* C18 (default injection is additive): set_defaults on a node whose link has
\* an inertial with the mass 2.5 leaves the mass at 2.5, no second value
\* added, and fills the pose and the inertia entries that are missing.
C18_MassKept ==
    [][(xpc = "node" /\ xpc' = "defaulted" /\ MassIs25(linkObjs)) =>
          (MassIs25(linkObjs') /\ InertialFilled(linkObjs'))]_vars

\* mass 1.0, zero pose, unit diagonal and zero off-diagonal inertia
DefaultInertial ==
    [mass |-> <<"1.0">>, pose |-> <<"0 0 0 0 0 0">>,
     inertia |-> <<[ixx |-> <<"1.0">>, iyy |-> <<"1.0">>, izz |-> <<"1.0">>,
                    ixy |-> <<"0.0">>, ixz |-> <<"0.0">>, iyz |-> <<"0.0">>]>>]

\* C19 (default inertial values): set_defaults, as add applies it to the new
\* node whose link has no inertial, leaves the link with exactly one inertial:
\* mass 1.0, pose 0 0 0 0 0 0, ixx = iyy = izz = 1.0, ixy = ixz = iyz = 0.0;
\* and the node's joint has an axis.
C19_DefaultInertial ==
    \A n \in Range(Added) :
        /\ linkObjs[nodes[n].link].inertial = <<DefaultInertial>>
        /\ Len(jointObjs[nodes[n].joint].axis) = 1

\* two nodes that add returned, their links with the default inertial
C19_Witness ==
    /\ xpc = "open"
    /\ Len(Added) = 2
    /\ \A n \in Range(Added) : linkObjs[nodes[n].link].inertial = <<DefaultInertial>>

\* C20 (create_empty): create_empty(name) leaves a Document with a schema
\* version and exactly one model, named name, whose link list and joint list
\* are empty, and a root node with a link, no joint and no children.
C20_CreateEmpty ==
    [][\A name \in ModelNames :
          create_empty(name) =>
              /\ sdf'.version # ""
              /\ Len(sdf'.model) = 1
              /\ robot'.name = name
              /\ robot'.link = << >>
              /\ robot'.joint = << >>
              /\ Len(nodes') = 1
              /\ nodes'[1].link \in Indices(linkObjs')
              /\ nodes'[1].joint = None
              /\ nodes'[1].children = << >>]_vars

\* the state create_empty("arm") leaves
C20_Witness ==
    /\ xpc = "open"
    /\ Len(nodes) = 1
    /\ robot = [name |-> "arm", link |-> << >>, joint |-> << >>]
    /\ sdf.version = "1.6"

\* the errors of the binding: the text does not decode against the schema
Malformed == decode.err \in {"ContentNondeterminismExceededError", "UnrecognizedContentError"}

\* C21 (malformed input): when the text does not decode against the schema,
\* parse fails with the error of the decoding, not with another one that the
\* handler raised, and returns neither root links nor a forest.
C21_MalformedDocument ==
    (pc = "parsed" /\ Malformed) =>
        /\ result.status = decode.err
        /\ result.root_links = << >>
        /\ result.kinematic_chains = << >>

\* C22 (write reports path failures): when the directory of the destination
\* is missing and cannot be made, write fails with the error of the file
\* system, raised where the directory is made, and there is no file at the
\* destination.
C22_PathFailure ==
    (writes > 0 /\ dir = "blocked") =>
        /\ wresult.err = "PermissionError"
        /\ wresult.at = "makedirs"
        /\ disk = "absent"
        /\ file = EmptyDocument

\* write was called on a tree of two nodes and the directory cannot be made
C22_Witness ==
    /\ writes > 0
    /\ dir = "blocked"
    /\ Len(nodes) = 3
    /\ wresult.err # "none"

\* C23 (file handles are released): once parse or write has returned or
\* raised, no file handle is open: not the one parse read the file through,
\* not the one write wrote it through.
C23_HandlesReleased ==
    (pc = "parsed" \/ writes > 0) => handles = {}

\* C24 (import is read-only): parse, with the builds it starts, leaves the
\* Document as it was decoded: the same links, the same joints, the same
\* parent and child names in every joint.
C24_ImportReadOnly ==
    [][(pc = "file" /\ pc' = "parsed") => doc' = doc]_vars

\* a Document of two joints from which parse built a tree three nodes deep
C24_Witness ==
    /\ ParsedOk
    /\ Len(doc.joint) = 2
    /\ \E t \in Indices(result.kinematic_chains) :
          /\ result.kinematic_chains[t].children # << >>
          /\ result.kinematic_chains[t].children[1].children # << >>

\* C25 (bounded recursion): build never recurses deeper than the Document has
\* links: parse does not end in the interpreter's RecursionError, which is
\* raised only at a depth beyond RecursionLimit, more than any number of
\* links of a Document here.
C25_BoundedRecursion ==
    pc = "parsed" =>
        /\ RecursionLimit > Len(doc.link)
        /\ result.status # "RecursionError"

\* C26 (defaults never overwrite joint fields): set_defaults on a node leaves
\* a parent name, a child name and an axis that the node's joint already has
\* as they are.
C26_JointFieldsKept ==
    [][(xpc = "node" /\ xpc' = "defaulted") =>
          LET before == jointObjs[nodes[1].joint]
              after == jointObjs'[nodes[1].joint]
          IN  /\ before.parent # << >> => after.parent = before.parent
              /\ before.child # << >> => after.child = before.child
              /\ before.axis # << >> => after.axis = before.axis]_vars

\* the defaults are in place on the node: its link has an inertial, its joint
\* an axis
HasDefaults(n) ==
    /\ linkObjs[nodes[n].link].inertial # << >>
    /\ jointObjs[nodes[n].joint].axis # << >>

\* C27 (order of the export steps): the defaults are applied by write, not
\* before: while the tree is assembled and not yet written, no node that add
\* returned has them (the caller, who sets names only, has not supplied
\* them either); once write has rendered the Document, every such node has.
C27_DefaultsAtWrite ==
    /\ (xpc = "open" /\ writes = 0) => \A n \in Range(Added) : ~HasDefaults(n)
    /\ (writes > 0 /\ wresult.err = "none") => \A n \in Range(Added) : HasDefaults(n)

\* C28 (write is repeatable): a second call of write, with no add since the
\* first, leaves every joint with the parent and child names it had after
\* the first and the Document with the same joint list; when both calls
\* render, they render the same Document.
C28_WriteRepeatable ==
    [][(writes = 1 /\ writes' = 2) =>
          /\ \A j \in Indices(jointObjs) :
                /\ jointObjs'[j].parent = jointObjs[j].parent
                /\ jointObjs'[j].child = jointObjs[j].child
          /\ robot'.joint = robot.joint
          /\ (disk = "rendered" /\ disk' = "rendered") => file' = file]_vars

\* C29 (a failed render leaves no partial file): when write fails with the
\* directory in place, because rendering the Document or writing the text
\* raised, the destination is as before the call: no file where there was
\* none, the previous content where there was a file.
C29_NoPartialFile ==
    [][(writes' = writes + 1 /\ wresult'.at \in {"render", "write"}) =>
          (disk' = disk /\ file' = file)]_vars

\* ------------------------------------------------- properties of the batch
DaeTurns == {i \in Indices(walk) : walk[i].ext = ".dae"}

\* C30: when dae_sdf_converter has finished over a folder, every .dae file
\* was counted once in the total, the success count is at most the total
\* and is the number of files whose package was complete when their turn
\* ended, and the package folder of every file that failed does not exist
C30_CompletePackagesOnly ==
    bpc = "finished" =>
        /\ file_cnt = Cardinality(DaeTurns)
        /\ success_cnt <= file_cnt
        /\ success_cnt = Cardinality({i \in DaeTurns : outcome[i] = "complete"})
        /\ \A i \in DaeTurns :
              outcome[i] = "failed" => "dir" \notin packages[walk[i].name]
====
